---- MODULE Spec2Model ----
(***************************************************************************)
(* Model of the iced_editor session controller (src/main.rs): the Editor   *)
(* state (path, content, error), the Application::update message handler,  *)
(* and the three asynchronous gateway futures pick_file, load_file and     *)
(* save_file, whose results come back as FileOpened / FileSaved messages.  *)
(***************************************************************************)
EXTENDS Integers, Sequences, FiniteSets, Bags, TLC

\* ---------------------------------------------------------------- bounds
MaxLen == 1          \* longest text held by the buffer or by a file
MaxInFlight == 2     \* gateway operations dispatched and not yet answered

\* ------------------------------------------------------------ value sets
Chars == {"a"}
DefaultFile == "main.rs"
Paths == {DefaultFile, "a.txt"}

None == "None"                       \* Option::None for Option<PathBuf>
OptPaths == Paths \cup {None}

RECURSIVE SeqsUpTo(_)
SeqsUpTo(n) ==
    IF n = 0 THEN {<<>>}
    ELSE LET S == SeqsUpTo(n - 1)
         IN  S \cup {Append(s, c) : s \in {t \in S : Len(t) = n - 1}, c \in Chars}
Texts == SeqsUpTo(MaxLen)

\* enum Error { DialogClosed, IOFailed(io::ErrorKind) }; NoError is Option::None
NoError == <<"None">>
DialogClosed == <<"DialogClosed">>
IOFailed(kind) == <<"IOFailed", kind>>
\* the io::ErrorKind a failed read / write is classified as
ReadErrorKind == "NotFound"          \* the file is not there
WriteErrorKind == "NotFound"         \* a directory of the path is not there

\* a file-system entry: absent, or a regular file holding data
NoFile == [exists |-> FALSE, data |-> <<>>]
File(d) == [exists |-> TRUE, data |-> d]

\* text_editor::Action, reduced to the kinds that matter for the text
Actions == {<<"Insert", c>> : c \in Chars} \cup {<<"Backspace">>, <<"Move">>}

VARIABLES
    path,      \* Editor.path : Option<PathBuf>
    content,   \* Editor.content : text_editor::Content (its text)
    error,     \* Editor.error : Option<Error>
    fs,        \* the file system: Paths -> entry
    tasks,     \* the gateway futures the executor is running (a bag)
    inbox,     \* results produced by finished futures, in completion order
    last,      \* the message update() handled last
    owed       \* history: 1 + Opens + Saves handled - results handled

vars == <<path, content, error, fs, tasks, inbox, last, owed>>


\* ---------------------------------------------------------- pure helpers
\* text_editor::Content::new()
ContentNew == <<>>

\* text_editor::Content::with(&text)
ContentWith(t) == t

\* self.content.text()
ContentText(c) == c

\* self.content.edit(action)
ContentEdit(c, a) ==
    CASE a[1] = "Insert"    -> IF Len(c) < MaxLen THEN Append(c, a[2]) ELSE c
      [] a[1] = "Backspace" -> IF Len(c) > 0 THEN SubSeq(c, 1, Len(c) - 1) ELSE c
      [] OTHER              -> c

\* path.is_file()
IsFile(p) == fs[p].exists

\* a future as Command::perform receives it: its position and its locals
Task(kind, pc, p, t) ==
    [kind |-> kind,      \* "load" | "pick" | "save"
     pc   |-> pc,        \* the await it is suspended at: "check" (not polled
                         \* yet) | "dialog" | "read" | "write"
     path |-> p,         \* `path`: the argument, then the resolved path
     text |-> t,         \* `text`: the argument of save_file
     buf  |-> IF kind = "save" THEN content ELSE <<>>,
                         \* history: the buffer when Message::Save was handled
     tr   |-> FALSE]     \* history: set on the operation an observer follows

\* operations dispatched whose result update() has not handled yet
InFlight == BagCardinality(tasks) + Len(inbox)

\* the save_file futures among them
SavesInFlight ==
    LET S == {t \in BagToSet(tasks) : t.kind = "save"}
    IN  BagCardinality([t \in S |-> CopiesIn(t, tasks)])
        + Cardinality({i \in 1..Len(inbox) : inbox[i].kind = "FileSaved"})

\* Command::perform(future, ..): the runtime spawns the future
Dispatch(kind, pc, p, t) ==
    /\ InFlight < MaxInFlight
    /\ tasks' = tasks (+) SetToBag({Task(kind, pc, p, t)})

\* ---------------------------------------------------------------- Init
InitWithoutLoad ==
    /\ path = None
    /\ content = ContentNew
    /\ error = NoError
    /\ fs \in [Paths -> {NoFile} \cup {File(d) : d \in Texts}]
    /\ tasks = EmptyBag
    /\ inbox = <<>>
    /\ last = "new"
    /\ owed = 0

\* Editor::new: empty content, no error, no path, load_file(default_file)
Init ==
    /\ path = None
    /\ content = ContentNew
    /\ error = NoError
    /\ fs \in [Paths -> {NoFile} \cup {File(d) : d \in Texts}]
    /\ tasks = SetToBag({Task("load", "read", DefaultFile, <<>>)})
    /\ inbox = <<>>
    /\ last = "new"
    /\ owed = 1

\* ------------------------------------------------------- update(message)
MsgEditKeepsError(a) ==
    /\ content' = ContentEdit(content, a)
    /\ last' = "Edit"
    /\ UNCHANGED <<path, error, fs, tasks, inbox, owed>>

\* Message::Edit(action)
MsgEdit(a) ==
    /\ content' = ContentEdit(content, a)
    /\ error' = NoError
    /\ last' = "Edit"
    /\ UNCHANGED <<path, fs, tasks, inbox, owed>>

\* the message at the head of the runtime's queue, if it is of this shape
HeadIs(kind, ok) ==
    /\ inbox # <<>>
    /\ Head(inbox).kind = kind
    /\ Head(inbox).ok = ok

\* common to the four result arms: the message is consumed
Consume(op) ==
    /\ inbox' = Tail(inbox)
    /\ last' = op
    /\ owed' = owed - 1
    /\ UNCHANGED tasks

MsgFileOpenedOkKeepsBuffer ==
    /\ HeadIs("FileOpened", TRUE)
    /\ path' = Head(inbox).path
    /\ Consume("FileOpenedOk")
    /\ UNCHANGED <<content, error, fs>>

\* Message::FileOpened(Ok((path, content)))
MsgFileOpenedOk ==
    /\ HeadIs("FileOpened", TRUE)
    /\ path' = Head(inbox).path
    /\ content' = ContentWith(Head(inbox).text)
    /\ Consume("FileOpenedOk")
    /\ UNCHANGED <<error, fs>>

MsgFileOpenedErrResets ==
    /\ HeadIs("FileOpened", FALSE)
    /\ error' = Head(inbox).error
    /\ path' = None
    /\ content' = ContentNew
    /\ Consume("FileOpenedErr")
    /\ UNCHANGED fs

MsgFileOpenedErrRetries ==
    /\ HeadIs("FileOpened", FALSE)
    /\ error' = Head(inbox).error
    /\ inbox' = Tail(inbox)
    /\ last' = "FileOpenedErr"
    /\ owed' = owed - 1
    /\ tasks' = tasks (+) SetToBag({Task("load", "read", DefaultFile, <<>>)})
    /\ UNCHANGED <<path, content, fs>>

\* Message::FileOpened(Err(error))
MsgFileOpenedErr ==
    /\ HeadIs("FileOpened", FALSE)
    /\ error' = Head(inbox).error
    /\ Consume("FileOpenedErr")
    /\ UNCHANGED <<path, content, fs>>

MsgOpenClearsPath ==
    /\ Dispatch("pick", "dialog", None, <<>>)
    /\ path' = None
    /\ last' = "Open"
    /\ owed' = owed + 1
    /\ UNCHANGED <<content, error, fs, inbox>>

\* Message::Open
MsgOpen ==
    /\ Dispatch("pick", "dialog", None, <<>>)
    /\ last' = "Open"
    /\ owed' = owed + 1
    /\ UNCHANGED <<path, content, error, fs, inbox>>

MsgNewKeepsPath ==
    /\ content' = ContentNew
    /\ last' = "New"
    /\ UNCHANGED <<path, error, fs, tasks, inbox, owed>>

MsgNewClearsError ==
    /\ path' = None
    /\ content' = ContentNew
    /\ error' = NoError
    /\ last' = "New"
    /\ UNCHANGED <<fs, tasks, inbox, owed>>

\* Message::New
MsgNew ==
    /\ path' = None
    /\ content' = ContentNew
    /\ last' = "New"
    /\ UNCHANGED <<error, fs, tasks, inbox, owed>>

MsgSaveUntitled ==
    /\ LET text == ContentText(content)
       IN  Dispatch("save", "check", None, text)
    /\ last' = "Save"
    /\ owed' = owed + 1
    /\ UNCHANGED <<path, content, error, fs, inbox>>

MsgSaveExclusive ==
    /\ SavesInFlight = 0
    /\ LET text == ContentText(content)
       IN  Dispatch("save", "check", path, text)
    /\ last' = "Save"
    /\ owed' = owed + 1
    /\ UNCHANGED <<path, content, error, fs, inbox>>

\* Message::Save
MsgSave ==
    /\ LET text == ContentText(content)
       IN  Dispatch("save", "check", path, text)
    /\ last' = "Save"
    /\ owed' = owed + 1
    /\ UNCHANGED <<path, content, error, fs, inbox>>

MsgFileSavedOkDropsStale ==
    /\ HeadIs("FileSaved", TRUE)
    /\ path # None
    /\ path' = Head(inbox).path
    /\ Consume("FileSavedOk")
    /\ UNCHANGED <<content, error, fs>>

\* Message::FileSaved(Ok(path))
MsgFileSavedOk ==
    /\ HeadIs("FileSaved", TRUE)
    /\ path' = Head(inbox).path
    /\ Consume("FileSavedOk")
    /\ UNCHANGED <<content, error, fs>>

MsgFileSavedErrClearsPath ==
    /\ HeadIs("FileSaved", FALSE)
    /\ error' = Head(inbox).error
    /\ path' = None
    /\ Consume("FileSavedErr")
    /\ UNCHANGED <<content, fs>>

\* Message::FileSaved(Err(error))
MsgFileSavedErr ==
    /\ HeadIs("FileSaved", FALSE)
    /\ error' = Head(inbox).error
    /\ Consume("FileSavedErr")
    /\ UNCHANGED <<path, content, fs>>

\* ------------------------------------------------------------- view()
StatusBarPathFirst ==
    IF path # None THEN <<"path", path>>
    ELSE IF error[1] = "IOFailed" THEN <<"error", error[2]>>
    ELSE <<"New file">>

\* Editor::view: the status shown left of the cursor position
StatusBar ==
    IF error[1] = "IOFailed" THEN <<"error", error[2]>>
    ELSE IF path # None THEN <<"path", path>>
    ELSE <<"New file">>

\* --------------------------------------------------------- the futures
\* Command::perform(future, f): the future's output becomes a message
\* history carried along: at, the await the future completed from; dest, the
\* file it read or wrote (None if it did neither); exact, whether the file
\* held the buffer text of the Save right after the write; tr, the future's
Msg(kind, ok, p, d, e, t, f, x) ==
    [kind |-> kind, ok |-> ok, path |-> p, text |-> d, error |-> e,
     at |-> t.pc, dest |-> f, exact |-> x, tr |-> t.tr]
OkOpened(t, p, d) == Msg("FileOpened", TRUE, p, d, NoError, t, t.path, TRUE)
ErrOpened(t, e) == Msg("FileOpened", FALSE, None, <<>>, e, t, None, TRUE)
OkSaved(t, p, w) == Msg("FileSaved", TRUE, p, <<>>, NoError, t, t.path, w = ContentText(t.buf))
ErrSaved(t, e) == Msg("FileSaved", FALSE, None, <<>>, e, t, None, TRUE)

Running(kind, pc) == {t \in BagToSet(tasks) : t.kind \in kind /\ t.pc = pc}

\* the future t suspends at an await and resumes as t2
Resume(t, t2) ==
    /\ tasks' = (tasks (-) SetToBag({t})) (+) SetToBag({t2})
    /\ UNCHANGED inbox

\* the future t completes: its output is queued as message m
Complete(t, m) ==
    /\ tasks' = tasks (-) SetToBag({t})
    /\ inbox' = Append(inbox, m)

DismissedAsNotFound == IOFailed(ReadErrorKind)

\* the outcome of a dismissed dialog: .ok_or(Error::DialogClosed)
DismissedError == DialogClosed

\* pick_file: the open dialog; a selection goes on to load_file
PickFileDialog(t) ==
    /\ \/ \E p \in Paths : Resume(t, [t EXCEPT !.pc = "read", !.path = p])
       \/ Complete(t, ErrOpened(t, DismissedError))
    /\ UNCHANGED <<path, content, error, fs, last, owed>>

\* load_file: tokio::fs::read_to_string(&path), error mapped to IOFailed(kind)
LoadFileRead(t) ==
    /\ IF IsFile(t.path)
       THEN Complete(t, OkOpened(t, t.path, fs[t.path].data))
       ELSE Complete(t, ErrOpened(t, IOFailed(ReadErrorKind)))
    /\ UNCHANGED <<path, content, error, fs, last, owed>>

SaveDirectUnchecked(t) == t.path # None

SaveDirectSessionPath(t) == path # None /\ path = t.path /\ IsFile(path)

\* save_file: `if let Some(path) = path && path.is_file()`
SaveDirect(t) == t.path # None /\ IsFile(t.path)

\* save_file: choosing between the given path and the save dialog
SaveFileCheck(t) ==
    /\ IF SaveDirect(t)
       THEN Resume(t, [t EXCEPT !.pc = "write"])
       ELSE Resume(t, [t EXCEPT !.pc = "dialog", !.path = None])
    /\ UNCHANGED <<path, content, error, fs, last, owed>>

\* save_file: the save dialog
SaveFileDialog(t) ==
    /\ \/ \E p \in Paths : Resume(t, [t EXCEPT !.pc = "write", !.path = p])
       \/ Complete(t, ErrSaved(t, DismissedError))
    /\ UNCHANGED <<path, content, error, fs, last, owed>>

WriteDataLive(t) == ContentText(content)

\* save_file: the bytes handed to tokio::fs::write(&path, &text)
WriteData(t) == t.text

SavedPathDefault(t) == DefaultFile

\* save_file: the value of the final Ok(path)
SavedPath(t) == t.path

\* save_file: tokio::fs::write, error mapped to IOFailed(kind)
SaveFileWrite(t) ==
    /\ \/ /\ fs' = [fs EXCEPT ![t.path] = File(WriteData(t))]
          /\ Complete(t, OkSaved(t, SavedPath(t), fs'[t.path].data))
       \/ /\ fs' = fs
          /\ Complete(t, ErrSaved(t, IOFailed(WriteErrorKind)))
    /\ UNCHANGED <<path, content, error, last, owed>>

\* the file system is shared: another process removes a file
ExternalRemove(p) ==
    /\ fs[p].exists
    /\ fs' = [fs EXCEPT ![p] = NoFile]
    /\ UNCHANGED <<path, content, error, tasks, inbox, last, owed>>

Next ==
    \/ \E a \in Actions : MsgEdit(a)
    \/ MsgFileOpenedOk
    \/ MsgFileOpenedErr
    \/ MsgOpen
    \/ MsgNew
    \/ MsgSave
    \/ MsgFileSavedOk
    \/ MsgFileSavedErr
    \/ \E t \in Running({"pick"}, "dialog") : PickFileDialog(t)
    \/ \E t \in Running({"load", "pick"}, "read") : LoadFileRead(t)
    \/ \E t \in Running({"save"}, "check") : SaveFileCheck(t)
    \/ \E t \in Running({"save"}, "dialog") : SaveFileDialog(t)
    \/ \E t \in Running({"save"}, "write") : SaveFileWrite(t)
    \/ \E p \in Paths : ExternalRemove(p)

Spec == Init /\ [][Next]_vars

\* ------------------------------------------------ the runtime's scheduling
\* an observer starts following one operation in flight (history only)
Track(t) ==
    /\ \A u \in BagToSet(tasks) : ~u.tr
    /\ \A i \in 1..Len(inbox) : ~inbox[i].tr
    /\ Resume(t, [t EXCEPT !.tr = TRUE])
    /\ UNCHANGED <<path, content, error, fs, last, owed>>

Tracked ==
    \/ \E u \in BagToSet(tasks) : u.tr
    \/ \E i \in 1..Len(inbox) : inbox[i].tr

\* the executor polls the followed future: its next step
TrackedStep ==
    \E t \in {u \in BagToSet(tasks) : u.tr} :
        \/ t.kind = "pick" /\ t.pc = "dialog" /\ PickFileDialog(t)
        \/ t.kind \in {"load", "pick"} /\ t.pc = "read" /\ LoadFileRead(t)
        \/ t.kind = "save" /\ t.pc = "check" /\ SaveFileCheck(t)
        \/ t.kind = "save" /\ t.pc = "dialog" /\ SaveFileDialog(t)
        \/ t.kind = "save" /\ t.pc = "write" /\ SaveFileWrite(t)

\* the runtime hands the oldest queued result to update()
Deliver ==
    \/ MsgFileOpenedOk
    \/ MsgFileOpenedErr
    \/ MsgFileSavedOk
    \/ MsgFileSavedErr

NextTracked ==
    \/ Next
    \/ \E t \in BagToSet(tasks) : Track(t)

\* the executor keeps polling a spawned future and the runtime keeps
\* delivering queued messages
FairSpec ==
    /\ Init
    /\ [][NextTracked]_vars
    /\ WF_vars(TrackedStep)
    /\ WF_vars(Deliver)

\* ================================================================ claims
\* a result message is taken off the queue by update()
Applied(kind, ok) == HeadIs(kind, ok) /\ inbox' = Tail(inbox)

\* C1: whenever a save has written successfully, the text it put into the
\* file is the text of the buffer as it was when Message::Save was handled,
\* whatever Edit, New or Open results were applied in between.
C1_SaveWritesCapturedText ==
    \A k \in 1..Len(inbox) :
        (inbox[k].kind = "FileSaved" /\ inbox[k].ok) => inbox[k].exact

\* a save has written its text and the buffer holds another text by now
C1_Witness ==
    \E k \in 1..Len(inbox) :
        /\ inbox[k].kind = "FileSaved" /\ inbox[k].ok /\ inbox[k].exact
        /\ fs[inbox[k].dest].exists
        /\ fs[inbox[k].dest].data # ContentText(content)
        /\ last \in {"Edit", "New", "FileOpenedOk"}

\* C2: when save_file starts with a path that is present and names an
\* existing file it goes straight to the write of that path and shows no
\* dialog; it shows the save dialog exactly when the path is absent or does
\* not name an existing file.
C2_DirectWriteWithoutPicker ==
    [][\A t \in Running({"save"}, "check") :
          SaveFileCheck(t) =>
              IF t.path # None /\ fs[t.path].exists
              THEN /\ Running({"save"}, "dialog")' = Running({"save"}, "dialog")
                   /\ [t EXCEPT !.pc = "write"] \in Running({"save"}, "write")'
              ELSE /\ [t EXCEPT !.pc = "dialog", !.path = None]
                         \in Running({"save"}, "dialog")'
                   /\ Running({"save"}, "write")' = Running({"save"}, "write")]_vars

\* the save of a session whose path names an existing file is at its write
C2_Witness ==
    \E t \in Running({"save"}, "write") :
        /\ t.path = path
        /\ fs[t.path].exists
        /\ last = "Save"

\* C3: a successful save result carries the path the text was written to,
\* and applying it makes that path the session path.
C3_SavedPathIsWrittenPath ==
    [][Applied("FileSaved", TRUE) =>
          /\ Head(inbox).at = "write"
          /\ Head(inbox).path = Head(inbox).dest
          /\ path' = Head(inbox).dest]_vars

\* a save result has just been applied and the session path names the file
\* that was written
C3_Witness ==
    /\ last = "FileSavedOk"
    /\ path = "a.txt"
    /\ fs[path].exists

\* C4: no step of a dismissed Open or Save changes the path or the buffer:
\* the intent changes neither, the dialog step changes neither and no file,
\* the operation completes from the dialog itself without a read or a write,
\* and applying its result stores DialogClosed and changes nothing else.
C4_DialogClosedLeavesSession ==
    /\ [][(MsgOpen \/ MsgSave) => UNCHANGED <<path, content, error, fs>>]_vars
    /\ [][\A t \in Running({"pick", "save"}, "dialog") :
              (PickFileDialog(t) \/ SaveFileDialog(t)) => UNCHANGED <<fs, path, content>>]_vars
    /\ [][(inbox # <<>> /\ Head(inbox).at = "dialog" /\ inbox' = Tail(inbox)) =>
              /\ Head(inbox).dest = None
              /\ error' = DialogClosed
              /\ UNCHANGED <<path, content, fs>>]_vars

\* a dismissal has just been reported on a session with a path and a text
C4_Witness ==
    /\ last \in {"FileOpenedErr", "FileSavedErr"}
    /\ error = DialogClosed
    /\ path # None
    /\ content # ContentNew

\* C5: applying a failed open result changes only the error; a failed read
\* reports IOFailed(kind).
C5_OpenFailureKeepsSession ==
    [][Applied("FileOpened", FALSE) =>
          /\ error' = Head(inbox).error
          /\ Head(inbox).at = "read" => error' = IOFailed(ReadErrorKind)
          /\ UNCHANGED <<path, content, fs, tasks>>]_vars

\* a read has just failed on a session with a path and a text
C5_Witness ==
    /\ last = "FileOpenedErr"
    /\ error = IOFailed(ReadErrorKind)
    /\ path # None
    /\ content # ContentNew

\* C6: applying a failed save result sets the error and leaves path and
\* buffer as they were.
C6_SaveFailureKeepsPath ==
    [][Applied("FileSaved", FALSE) =>
          /\ error' = Head(inbox).error
          /\ UNCHANGED <<path, content, fs, tasks>>]_vars

\* a write has just failed and the session still has the path it had
C6_Witness ==
    /\ last = "FileSavedErr"
    /\ error = IOFailed(WriteErrorKind)
    /\ path # None

\* C7: after any Message::Edit the error is absent and the path is the
\* same as before.
C7_EditClearsError ==
    [][(\E a \in Actions : MsgEdit(a)) => (error' = NoError /\ path' = path)]_vars

\* an edit has just been handled on a titled session
C7_Witness ==
    /\ last = "Edit"
    /\ error = NoError
    /\ path # None
    /\ content # ContentNew

\* C8: right after a successful open or save result the error is absent.
C8_SuccessClearsError ==
    last \in {"FileOpenedOk", "FileSavedOk"} => error = NoError

\* C9: right after Message::New the error is absent.
C9_NewClearsError ==
    last = "New" => error = NoError

\* C10: Message::New makes the path none and the buffer empty, whatever the
\* state and whatever is in flight, and dispatches nothing.
C10_NewMakesUntitledEmpty ==
    [][MsgNew =>
          /\ path' = None
          /\ content' = ContentNew
          /\ UNCHANGED <<tasks, inbox, fs>>]_vars

\* New has just been handled while an operation was in flight
C10_Witness ==
    /\ last = "New"
    /\ path = None
    /\ content = ContentNew
    /\ InFlight > 0

\* C11: applying a successful open result makes the path the path that was
\* read and the buffer the text that was read, whatever the buffer held.
C11_OpenReplacesDocument ==
    [][Applied("FileOpened", TRUE) =>
          /\ Head(inbox).at = "read"
          /\ path' = Head(inbox).dest
          /\ content' = ContentWith(Head(inbox).text)]_vars

\* a picked file has just been opened over a session that is now its copy
C11_Witness ==
    /\ last = "FileOpenedOk"
    /\ path = "a.txt"
    /\ fs[path].exists
    /\ content = ContentWith(fs[path].data)
    /\ content # ContentNew

C13_ResultsAppliedInArrivalOrder ==
    /\ [](inbox # <<>> => ENABLED Deliver)
    /\ [][/\ inbox' # inbox =>
               \/ inbox # <<>> /\ inbox' = Tail(inbox) /\ Deliver
               \/ Len(inbox') = Len(inbox) + 1 /\ SubSeq(inbox', 1, Len(inbox)) = inbox
          /\ Applied("FileSaved", TRUE) => path' = Head(inbox).path
          /\ (last = "New" /\ Applied("FileSaved", TRUE)) =>
                (path' = Head(inbox).path /\ path' # None /\ content' = ContentNew)]_vars

\* New has been handled and a successful save result is next in the queue
C13_Witness ==
    /\ last = "New"
    /\ path = None
    /\ content = ContentNew
    /\ HeadIs("FileSaved", TRUE)
    /\ ENABLED MsgFileSavedOk

\* C14: handling Open or Save leaves path, buffer and error unchanged and
\* spawns exactly one future: pick_file for Open, save_file with the current
\* path and the buffer text for Save.
C14_OpenSaveOnlyDispatch ==
    [][/\ MsgOpen =>
            /\ UNCHANGED <<path, content, error, fs, inbox>>
            /\ tasks' = tasks (+) SetToBag({Task("pick", "dialog", None, <<>>)})
       /\ MsgSave =>
            /\ UNCHANGED <<path, content, error, fs, inbox>>
            /\ \E t \in BagToSet(tasks') :
                  /\ tasks' = tasks (+) SetToBag({t})
                  /\ t.kind = "save" /\ t.pc = "check"
                  /\ t.path = path /\ t.text = ContentText(content)]_vars

\* Save was just handled on a titled non-empty session: its future holds both
C14_Witness ==
    /\ last = "Save"
    /\ path # None
    /\ content # ContentNew
    /\ \E t \in Running({"save"}, "check") :
          t.path = path /\ t.text = ContentText(content)

\* C15: every operation dispatched is either still running or has exactly
\* one result queued, so results handled never exceed 1 + Opens + Saves;
\* only Open and Save add an operation, only handling a result removes one;
\* and with the followed future polled and queued results delivered, the
\* result of a followed operation is eventually handled.
C15_OneResultPerOperation ==
    /\ [](owed >= 0 /\ owed = InFlight)
    /\ [][/\ InFlight' > InFlight => (MsgOpen \/ MsgSave) /\ InFlight' = InFlight + 1
          /\ InFlight' < InFlight => Deliver /\ InFlight' = InFlight - 1
          /\ (Deliver \/ MsgNew \/ \E a \in Actions : MsgEdit(a)) =>
                tasks' = tasks]_vars
    /\ Tracked ~> ~Tracked

\* the result of a followed save is queued behind another result
C15_Witness ==
    /\ Len(inbox) = 2
    /\ inbox[2].tr
    /\ inbox[2].kind = "FileSaved"
    /\ owed = 2

\* C16: Save is refused by nothing but the bound on operations in flight, so
\* a second Save handled while a save is in flight adds a second save future
\* with its own captured path and text.
C16_SavesRunConcurrently ==
    /\ [](InFlight < MaxInFlight => ENABLED MsgSave)
    /\ [][MsgSave => SavesInFlight' = SavesInFlight + 1]_vars

\* two saves are about to write different texts to different files
C16_Witness ==
    \E t1, t2 \in Running({"save"}, "write") :
        t1.path # t2.path /\ t1.text # t2.text

\* C17: until the first message is handled the session is empty, untitled
\* and without error and exactly one operation is in flight, the load of
\* the initial document; its success sets path and buffer, its failure sets
\* only the error.
C17_StartupLoadsInitialDocument ==
    /\ [](last = "new" =>
            /\ path = None /\ content = ContentNew /\ error = NoError
            /\ owed = 1 /\ InFlight = 1
            /\ \/ tasks = SetToBag({Task("load", "read", DefaultFile, <<>>)})
               \/ /\ inbox[1].kind = "FileOpened" /\ inbox[1].at = "read"
                  /\ inbox[1].ok => inbox[1].dest = DefaultFile)
    /\ [][/\ (last = "new" /\ Applied("FileOpened", TRUE)) =>
               /\ path' = DefaultFile
               /\ content' = ContentWith(Head(inbox).text)
               /\ error' = NoError
          /\ (last = "new" /\ Applied("FileOpened", FALSE)) =>
               /\ error' = IOFailed(ReadErrorKind)
               /\ path' = None
               /\ content' = ContentNew]_vars

\* the initial load failed and nothing else has happened
C17_Witness ==
    /\ last = "FileOpenedErr"
    /\ owed = 0
    /\ path = None
    /\ content = ContentNew
    /\ error = IOFailed(ReadErrorKind)
    /\ ~fs[DefaultFile].exists

\* C18: the error is set by every failure result to that result's error,
\* cleared by every Edit, and changed by nothing else: New and the success
\* results leave it as it is.
C18_ErrorIsLastFailureSinceEdit ==
    /\ [](/\ last \in {"new", "Edit"} => error = NoError
          /\ last \in {"FileOpenedErr", "FileSavedErr"} => error # NoError)
    /\ [][/\ (\E a \in Actions : MsgEdit(a)) => error' = NoError
          /\ (Applied("FileOpened", FALSE) \/ Applied("FileSaved", FALSE)) =>
                (error' = Head(inbox).error /\ error' # NoError)
          /\ (MsgNew \/ Applied("FileOpened", TRUE) \/ Applied("FileSaved", TRUE)) =>
                error' = error
          /\ error' # error =>
                \/ \E a \in Actions : MsgEdit(a)
                \/ Applied("FileOpened", FALSE)
                \/ Applied("FileSaved", FALSE)]_vars

\* a file was opened after a dismissed dialog: the error is still stored
C18_Witness ==
    /\ last = "FileOpenedOk"
    /\ error = DialogClosed
    /\ path # None

\* C19: the path changes only when New clears it or a success result sets
\* it to the file its operation read or wrote; Edit, Open, Save and failure
\* results keep it.
C19_PathFromCompletedOperation ==
    /\ [](path \in OptPaths)
    /\ [][/\ path' # path =>
               \/ MsgNew /\ path' = None
               \/ /\ Applied("FileOpened", TRUE)
                  /\ Head(inbox).at = "read"
                  /\ path' = Head(inbox).dest /\ path' \in Paths
               \/ /\ Applied("FileSaved", TRUE)
                  /\ Head(inbox).at = "write"
                  /\ path' = Head(inbox).dest /\ path' \in Paths
          /\ \/ \E a \in Actions : MsgEdit(a)
             \/ MsgOpen
             \/ MsgSave
             \/ Applied("FileOpened", FALSE)
             \/ Applied("FileSaved", FALSE)
             => path' = path]_vars

\* Open was handled on a session that has a path: the path stays
C19_Witness ==
    /\ last = "Open"
    /\ path = "a.txt"
    /\ fs[path].exists
    /\ fs[path].data # <<>>
    /\ Running({"pick"}, "dialog") # {}

\* C20: New and open results leave the futures in flight as they are; a
\* save future decides between writing and the dialog from the path it was
\* given and the file system as it is when the future runs, and a write
\* changes no file but the one at the future's path.
C20_SaveUsesCapturedPath ==
    [][/\ (MsgNew \/ Applied("FileOpened", TRUE)) => tasks' = tasks
       /\ \A t \in Running({"save"}, "check") :
            SaveFileCheck(t) =>
              \E t2 \in BagToSet(tasks') :
                /\ tasks' = (tasks (-) SetToBag({t})) (+) SetToBag({t2})
                /\ t2.pc = IF t.path # None /\ fs[t.path].exists
                           THEN "write" ELSE "dialog"
                /\ t2.pc = "write" => t2.path = t.path
       /\ \A t \in Running({"save"}, "write") :
            SaveFileWrite(t) => \A p \in Paths \ {t.path} : fs'[p] = fs[p]]_vars

\* a save given a path is yet to run; meanwhile New made the session
\* untitled and the file at the save's path is gone
C20_Witness ==
    /\ last = "New"
    /\ path = None
    /\ \E t \in Running({"save"}, "check") : t.path # None /\ ~fs[t.path].exists
====
